---- MODULE Spec2Model ----
(***************************************************************************)
(* Model of the temporary-grant scheduler of src/Main.py: parse_duration,  *)
(* the permit / unpermit / whitelist command handlers, and the two expiry  *)
(* coroutines remove_permit_after_timeout and remove_role_after_timeout,   *)
(* run by a single-threaded asyncio event loop (a handler runs without     *)
(* interruption from one await to the next).                               *)
(***************************************************************************)
EXTENDS Integers, Sequences, FiniteSets, TLC

(***************************************************************************)
(* Bounds of the model.                                                    *)
(***************************************************************************)
\* longest duration text enumerated exhaustively by ParseSpec
MaxLen == 3
\* largest integer whose decimal spelling is fed to parse_duration
MaxN == 40
\* number of timer tasks that may be created in one behaviour
MaxTasks == 2
\* number of whitelist handlers that may be suspended in add_roles at once
MaxInflight == 1

(***************************************************************************)
(* Texts.  A Python str is a sequence of one-character strings.            *)
(***************************************************************************)
Digits == <<"0", "1", "2", "3", "4", "5", "6", "7", "8", "9">>

IsDigit(c) == c \in {"0", "1", "2", "3", "4", "5", "6", "7", "8", "9"}

DigitVal(c) == (CHOOSE i \in 1..10 : Digits[i] = c) - 1

\* str.lower(), on the letters the model's texts are built from
Lower(c) ==
    CASE c = "I" -> "i"
      [] c = "N" -> "n"
      [] c = "F" -> "f"
      [] c = "T" -> "t"
      [] c = "E" -> "e"
      [] c = "M" -> "m"
      [] c = "H" -> "h"
      [] c = "D" -> "d"
      [] OTHER -> c

Upper(c) ==
    CASE c = "i" -> "I"
      [] c = "n" -> "N"
      [] c = "f" -> "F"
      [] c = "t" -> "T"
      [] c = "e" -> "E"
      [] c = "m" -> "M"
      [] c = "h" -> "H"
      [] c = "d" -> "D"
      [] OTHER -> c

lower(s) == [i \in 1..Len(s) |-> Lower(s[i])]

endswith(s, c) == Len(s) > 0 /\ s[Len(s)] = c

\* s[:-1]
DropLast(s) == IF Len(s) = 0 THEN s ELSE SubSeq(s, 1, Len(s) - 1)

RECURSIVE LStrip(_)
LStrip(s) == IF Len(s) > 0 /\ s[1] = " " THEN LStrip(Tail(s)) ELSE s

RECURSIVE RStrip(_)
RStrip(s) == IF Len(s) > 0 /\ s[Len(s)] = " " THEN RStrip(DropLast(s)) ELSE s

\* the digit part of an integer literal: digits, single underscores between
\* digits only
DigitsOK(s) ==
    /\ Len(s) > 0
    /\ \A i \in 1..Len(s) : IsDigit(s[i]) \/ s[i] = "_"
    /\ IsDigit(s[1]) /\ IsDigit(s[Len(s)])
    /\ \A i \in 1..(Len(s) - 1) : ~(s[i] = "_" /\ s[i + 1] = "_")

RECURSIVE DigitsValue(_, _)
DigitsValue(s, acc) ==
    IF Len(s) = 0 THEN acc
    ELSE IF s[1] = "_" THEN DigitsValue(Tail(s), acc)
    ELSE DigitsValue(Tail(s), acc * 10 + DigitVal(s[1]))

\* Python's int(str): surrounding whitespace is stripped, one optional sign,
\* then the digit part; anything else raises ValueError.
PyInt(s) ==
    LET t == RStrip(LStrip(s))
        signed == Len(t) > 0 /\ t[1] \in {"+", "-"}
        body == IF signed THEN Tail(t) ELSE t
    IN  IF DigitsOK(body)
        THEN [ok |-> TRUE,
              val |-> IF signed /\ t[1] = "-" THEN 0 - DigitsValue(body, 0)
                      ELSE DigitsValue(body, 0)]
        ELSE [ok |-> FALSE, val |-> 0]

(***************************************************************************)
(* parse_duration.  Its results: a number of seconds, float('inf'), None.  *)
(***************************************************************************)
Seconds(n) == [kind |-> "seconds", val |-> n]
Infinite == [kind |-> "inf", val |-> 0]
None == [kind |-> "none", val |-> 0]

\* int(text) * mult inside the try block; ValueError gives None
IntTimes(text, mult) ==
    LET r == PyInt(text) IN IF r.ok THEN Seconds(r.val * mult) ELSE None

\* a slip in the unit table: hours multiplied like minutes
parse_duration_hours_as_minutes(duration_str) ==
    IF lower(duration_str) = <<"i", "n", "f">>
       \/ lower(duration_str) = <<"i", "n", "f", "i", "n", "i", "t", "e">>
    THEN Infinite
    ELSE IF endswith(duration_str, "m") THEN IntTimes(DropLast(duration_str), 60)
    ELSE IF endswith(duration_str, "h") THEN IntTimes(DropLast(duration_str), 60)
    ELSE IF endswith(duration_str, "d") THEN IntTimes(DropLast(duration_str), 86400)
    ELSE IntTimes(duration_str, 60)

parse_duration(duration_str) ==
    IF lower(duration_str) = <<"i", "n", "f">>
       \/ lower(duration_str) = <<"i", "n", "f", "i", "n", "i", "t", "e">>
    THEN Infinite
    ELSE IF endswith(duration_str, "m") THEN IntTimes(DropLast(duration_str), 60)
    ELSE IF endswith(duration_str, "h") THEN IntTimes(DropLast(duration_str), 3600)
    ELSE IF endswith(duration_str, "d") THEN IntTimes(DropLast(duration_str), 86400)
    ELSE IntTimes(duration_str, 60)

\* asyncio.sleep(duration) inside a timer task: a delay <= 0 is due at once
SleepTime(ds) == IF ds.val > 0 THEN ds.val ELSE 0

(***************************************************************************)
(* The world of the commands.                                              *)
(***************************************************************************)
Users == {"u1", "u2"}
Callers == {"admin", "member"}
Admins == {"admin"}
\* duration arguments the commands are issued with
CmdTexts == { <<"1">>, <<"2", "m">>, <<"i", "n", "f">>, <<"a", "b", "c">> }
\* plan arguments the whitelist command is issued with
PlanTexts == {"Essential", "prime", "gold"}
Roles == {"essential", "prime"}
\* the roles ctx.guild.get_role resolves: the Essential role is configured,
\* PRIME_ROLE_ID is left at its default 0, which no guild role has
GuildRoles == {"essential"}
Caps == {"permit"} \cup Roles

\* plan.lower(), on the plan arguments above
PlanLower(plan) == IF plan = "Essential" THEN "essential" ELSE plan

\* the role check left out: every caller passes
is_admin_everyone(user) == TRUE

is_admin(user) == user \in Admins

VARIABLES
    members,          \* the guild members a command can name as its target
    permitted_users,  \* set of user ids holding the bare permission
    user_timeouts,    \* dict user id -> timer task (an index of tasks)
    tasks,            \* every asyncio task created by create_task, in order
    roles,            \* the role backend: the <<user, role>> pairs assigned
    awaiting,         \* whitelist handlers suspended in `await user.add_roles`
    grant_expiry,     \* per user and capability, the duration kind of the
                      \* latest successful grant ("none" after a manual revoke)
    output,           \* the title of the latest embed sent by a command
    duration_str,     \* argument of a direct call of parse_duration
    duration_seconds  \* its result

vars == <<members, permitted_users, user_timeouts, tasks, roles, awaiting, grant_expiry,
          output, duration_str, duration_seconds, members>>

NotCalled == [kind |-> "notcalled", val |-> 0]

\* dict operations
DictSet(d, k, v) == [x \in DOMAIN d \cup {k} |-> IF x = k THEN v ELSE d[x]]
DictDel(d, k) == [x \in DOMAIN d \ {k} |-> d[x]]

Task(kind, user, role, ds) ==
    [kind |-> kind, user |-> user, role |-> role, rem |-> SleepTime(ds),
     status |-> "sleeping"]

TaskIds == 1..Len(tasks)

Init ==
    /\ members = {"u1"}
    /\ permitted_users = {}
    /\ user_timeouts = [x \in {} |-> 0]
    /\ tasks = << >>
    /\ roles = {}
    /\ awaiting = << >>
    /\ grant_expiry = [u \in Users |-> [c \in Caps |-> "none"]]
    /\ output = "Ready"
    /\ duration_str = << >>
    /\ duration_seconds = NotCalled

ExpiryKind(ds) == IF ds = Infinite THEN "inf" ELSE "finite"

\* permit without the `duration_seconds is None` return
permit_unchecked_duration(caller, user, duration) ==
    LET ds == parse_duration(duration) IN
    /\ IF ~is_admin(caller)
       THEN /\ output' = "Unauthorized"
            /\ UNCHANGED <<permitted_users, user_timeouts, tasks, grant_expiry>>
       ELSE /\ permitted_users' = permitted_users \cup {user}
            /\ IF ds # Infinite
               THEN /\ Len(tasks) < MaxTasks
                    /\ tasks' = Append(tasks, Task("permit", user, "none", ds))
                    /\ user_timeouts' = DictSet(user_timeouts, user, Len(tasks) + 1)
               ELSE UNCHANGED <<tasks, user_timeouts>>
            /\ grant_expiry' = [grant_expiry EXCEPT ![user]["permit"] = ExpiryKind(ds)]
            /\ output' = "Granted"
    /\ UNCHANGED <<roles, awaiting, duration_str, duration_seconds, members>>

\* permit without the `!= float('inf')` test: a timer task for every grant
permit_always_arms(caller, user, duration) ==
    LET ds == parse_duration(duration) IN
    /\ IF ~is_admin(caller)
       THEN /\ output' = "Unauthorized"
            /\ UNCHANGED <<permitted_users, user_timeouts, tasks, grant_expiry>>
       ELSE IF ds = None
       THEN /\ output' = "InvalidDuration"
            /\ UNCHANGED <<permitted_users, user_timeouts, tasks, grant_expiry>>
       ELSE /\ permitted_users' = permitted_users \cup {user}
            /\ Len(tasks) < MaxTasks
            /\ tasks' = Append(tasks, Task("permit", user, "none", ds))
            /\ user_timeouts' = DictSet(user_timeouts, user, Len(tasks) + 1)
            /\ grant_expiry' = [grant_expiry EXCEPT ![user]["permit"] = ExpiryKind(ds)]
            /\ output' = "Granted"
    /\ UNCHANGED <<roles, awaiting, duration_str, duration_seconds, members>>

(***************************************************************************)
(* permit                                                                  *)
(***************************************************************************)
permit(caller, user, duration) ==
    LET ds == parse_duration(duration) IN
    /\ IF ~is_admin(caller)
       THEN /\ output' = "Unauthorized"
            /\ UNCHANGED <<permitted_users, user_timeouts, tasks, grant_expiry>>
       ELSE IF ds = None
       THEN /\ output' = "InvalidDuration"
            /\ UNCHANGED <<permitted_users, user_timeouts, tasks, grant_expiry>>
       ELSE /\ permitted_users' = permitted_users \cup {user}
            /\ IF ds # Infinite
               THEN /\ Len(tasks) < MaxTasks
                    /\ tasks' = Append(tasks, Task("permit", user, "none", ds))
                    /\ user_timeouts' = DictSet(user_timeouts, user, Len(tasks) + 1)
               ELSE UNCHANGED <<tasks, user_timeouts>>
            /\ grant_expiry' = [grant_expiry EXCEPT ![user]["permit"] = ExpiryKind(ds)]
            /\ output' = "Granted"
    /\ UNCHANGED <<roles, awaiting, duration_str, duration_seconds, members>>

\* remove_permit_after_timeout without its finally clause
remove_permit_after_timeout_keeps_handle(i) ==
    /\ tasks[i].kind = "permit"
    /\ tasks[i].status = "sleeping"
    /\ tasks[i].rem = 0
    /\ permitted_users' = permitted_users \ {tasks[i].user}
    /\ tasks' = [tasks EXCEPT ![i].status = "done"]
    /\ UNCHANGED <<user_timeouts, roles, awaiting, grant_expiry, output, duration_str,
                   duration_seconds, members>>

(***************************************************************************)
(* remove_permit_after_timeout: the body after the sleep, which holds no   *)
(* await and so runs in one step                                           *)
(***************************************************************************)
remove_permit_after_timeout(i) ==
    /\ tasks[i].kind = "permit"
    /\ tasks[i].status = "sleeping"
    /\ tasks[i].rem = 0
    /\ permitted_users' = permitted_users \ {tasks[i].user}
    /\ user_timeouts' = DictDel(user_timeouts, tasks[i].user)
    /\ tasks' = [tasks EXCEPT ![i].status = "done"]
    /\ UNCHANGED <<roles, awaiting, grant_expiry, output, duration_str, duration_seconds, members>>

(***************************************************************************)
(* Task.cancel(): a task suspended in its sleep ends there, outside the    *)
(* try block; a task suspended in `await user.remove_roles` gets the       *)
(* CancelledError inside the try block and still runs its finally clause;  *)
(* a finished task is left as it is                                        *)
(***************************************************************************)
cancel(ts, i) ==
    IF ts[i].status = "sleeping" THEN [ts EXCEPT ![i].status = "cancelled"]
    ELSE IF ts[i].status = "removing" THEN [ts EXCEPT ![i].status = "cancelling"]
    ELSE ts

\* unpermit with the timeout cancelled before the membership test
unpermit_cancels_first(caller, user) ==
    /\ IF ~is_admin(caller)
       THEN /\ output' = "Unauthorized"
            /\ UNCHANGED <<permitted_users, user_timeouts, tasks, grant_expiry>>
       ELSE /\ IF user \in DOMAIN user_timeouts
               THEN /\ tasks' = cancel(tasks, user_timeouts[user])
                    /\ user_timeouts' = DictDel(user_timeouts, user)
               ELSE UNCHANGED <<tasks, user_timeouts>>
            /\ IF user \in permitted_users
               THEN /\ permitted_users' = permitted_users \ {user}
                    /\ grant_expiry' = [grant_expiry EXCEPT ![user]["permit"] = "none"]
                    /\ output' = "Revoked"
               ELSE /\ output' = "NotPermitted"
                    /\ UNCHANGED <<permitted_users, grant_expiry>>
    /\ UNCHANGED <<roles, awaiting, duration_str, duration_seconds, members>>

\* unpermit emptying the timeout dict instead of deleting the user's entry
unpermit_clears_timeouts(caller, user) ==
    /\ IF ~is_admin(caller)
       THEN /\ output' = "Unauthorized"
            /\ UNCHANGED <<permitted_users, user_timeouts, tasks, grant_expiry>>
       ELSE IF user \in permitted_users
       THEN /\ permitted_users' = permitted_users \ {user}
            /\ IF user \in DOMAIN user_timeouts
               THEN /\ tasks' = cancel(tasks, user_timeouts[user])
                    /\ user_timeouts' = [x \in {} |-> 0]
               ELSE UNCHANGED <<tasks, user_timeouts>>
            /\ grant_expiry' = [grant_expiry EXCEPT ![user]["permit"] = "none"]
            /\ output' = "Revoked"
       ELSE /\ output' = "NotPermitted"
            /\ UNCHANGED <<permitted_users, user_timeouts, tasks, grant_expiry>>
    /\ UNCHANGED <<roles, awaiting, duration_str, duration_seconds, members>>

(***************************************************************************)
(* unpermit                                                                *)
(***************************************************************************)
unpermit(caller, user) ==
    /\ IF ~is_admin(caller)
       THEN /\ output' = "Unauthorized"
            /\ UNCHANGED <<permitted_users, user_timeouts, tasks, grant_expiry>>
       ELSE IF user \in permitted_users
       THEN /\ permitted_users' = permitted_users \ {user}
            /\ IF user \in DOMAIN user_timeouts
               THEN /\ tasks' = cancel(tasks, user_timeouts[user])
                    /\ user_timeouts' = DictDel(user_timeouts, user)
               ELSE UNCHANGED <<tasks, user_timeouts>>
            /\ grant_expiry' = [grant_expiry EXCEPT ![user]["permit"] = "none"]
            /\ output' = "Revoked"
       ELSE /\ output' = "NotPermitted"
            /\ UNCHANGED <<permitted_users, user_timeouts, tasks, grant_expiry>>
    /\ UNCHANGED <<roles, awaiting, duration_str, duration_seconds, members>>

\* whitelist parsing the duration before it looks at the plan
whitelist_duration_first(caller, user, duration, plan) ==
    LET ds == parse_duration(duration)
        role == PlanLower(plan)
    IN
    /\ IF ~is_admin(caller)
       THEN output' = "Unauthorized" /\ UNCHANGED awaiting
       ELSE IF ds = None
       THEN output' = "InvalidDuration" /\ UNCHANGED awaiting
       ELSE IF PlanLower(plan) \notin {"essential", "prime"}
       THEN output' = "InvalidPlan" /\ UNCHANGED awaiting
       ELSE IF role \notin GuildRoles
       THEN output' = "RoleNotFound" /\ UNCHANGED awaiting
       ELSE /\ Len(awaiting) < MaxInflight
            /\ awaiting' = Append(awaiting,
                                  [user |-> user, role |-> role, duration_seconds |-> ds])
            /\ UNCHANGED output
    /\ UNCHANGED <<permitted_users, user_timeouts, tasks, roles, grant_expiry,
                   duration_str, duration_seconds, members>>

(***************************************************************************)
(* whitelist, up to its only suspension point `await user.add_roles(role)` *)
(***************************************************************************)
whitelist(caller, user, duration, plan) ==
    LET ds == parse_duration(duration)
        role == PlanLower(plan)
    IN
    /\ IF ~is_admin(caller)
       THEN output' = "Unauthorized" /\ UNCHANGED awaiting
       ELSE IF PlanLower(plan) \notin {"essential", "prime"}
       THEN output' = "InvalidPlan" /\ UNCHANGED awaiting
       ELSE IF ds = None
       THEN output' = "InvalidDuration" /\ UNCHANGED awaiting
       ELSE IF role \notin GuildRoles
       THEN output' = "RoleNotFound" /\ UNCHANGED awaiting
       ELSE /\ Len(awaiting) < MaxInflight
            /\ awaiting' = Append(awaiting,
                                  [user |-> user, role |-> role, duration_seconds |-> ds])
            /\ UNCHANGED output
    /\ UNCHANGED <<permitted_users, user_timeouts, tasks, roles, grant_expiry,
                   duration_str, duration_seconds, members>>

RemoveAt(q, k) == [j \in 1..(Len(q) - 1) |-> IF j < k THEN q[j] ELSE q[j + 1]]

\* outcomes of `await user.add_roles(role)`
AddOutcomes == {"ok", "Forbidden", "HTTPException"}

\* the timer task created before the outcome of add_roles is known
whitelist_resume_arms_first(k, outcome) ==
    LET w == awaiting[k] IN
    /\ awaiting' = RemoveAt(awaiting, k)
    /\ IF w.duration_seconds # Infinite
       THEN /\ Len(tasks) < MaxTasks
            /\ tasks' = Append(tasks, Task("role", w.user, w.role, w.duration_seconds))
            /\ user_timeouts' = DictSet(user_timeouts, w.user, Len(tasks) + 1)
       ELSE UNCHANGED <<tasks, user_timeouts>>
    /\ IF outcome = "ok"
       THEN /\ roles' = roles \cup {<<w.user, w.role>>}
            /\ grant_expiry' =
                   [grant_expiry EXCEPT ![w.user][w.role] = ExpiryKind(w.duration_seconds)]
            /\ output' = "Whitelisted"
       ELSE /\ IF outcome = "Forbidden"
               THEN output' = "PermissionError"
               ELSE UNCHANGED output
            /\ UNCHANGED <<roles, grant_expiry>>
    /\ UNCHANGED <<permitted_users, duration_str, duration_seconds, members>>

(***************************************************************************)
(* whitelist, from the return of add_roles to the end of the handler       *)
(***************************************************************************)
whitelist_resume(k, outcome) ==
    LET w == awaiting[k] IN
    /\ awaiting' = RemoveAt(awaiting, k)
    /\ IF outcome = "ok"
       THEN /\ roles' = roles \cup {<<w.user, w.role>>}
            /\ IF w.duration_seconds # Infinite
               THEN /\ Len(tasks) < MaxTasks
                    /\ tasks' = Append(tasks, Task("role", w.user, w.role, w.duration_seconds))
                    /\ user_timeouts' = DictSet(user_timeouts, w.user, Len(tasks) + 1)
               ELSE UNCHANGED <<tasks, user_timeouts>>
            /\ grant_expiry' =
                   [grant_expiry EXCEPT ![w.user][w.role] = ExpiryKind(w.duration_seconds)]
            /\ output' = "Whitelisted"
       ELSE /\ IF outcome = "Forbidden"
               THEN output' = "PermissionError"
               ELSE UNCHANGED output  \* on_command_error logs, no embed is sent
            /\ UNCHANGED <<roles, tasks, user_timeouts, grant_expiry>>
    /\ UNCHANGED <<permitted_users, duration_str, duration_seconds, members>>

(***************************************************************************)
(* remove_role_after_timeout: the sleep is over and the task suspends in   *)
(* `await user.remove_roles(role)`                                         *)
(***************************************************************************)
remove_role_call(i) ==
    /\ tasks[i].kind = "role"
    /\ tasks[i].status = "sleeping"
    /\ tasks[i].rem = 0
    /\ tasks' = [tasks EXCEPT ![i].status = "removing"]
    /\ UNCHANGED <<permitted_users, user_timeouts, roles, awaiting, grant_expiry,
                   output, duration_str, duration_seconds, members>>

\* outcomes of `await user.remove_roles(role)`
RemoveOutcomes == {"ok", "NotFound", "Exception"}

\* remove_role_after_timeout unregistering the handle at the end of the try
\* block instead of in a finally clause
remove_role_resume_no_finally(i, outcome) ==
    /\ tasks[i].kind = "role"
    /\ tasks[i].status = "removing"
    /\ roles' = IF outcome = "ok" THEN roles \ {<<tasks[i].user, tasks[i].role>>} ELSE roles
    /\ user_timeouts' = IF outcome = "ok" THEN DictDel(user_timeouts, tasks[i].user)
                        ELSE user_timeouts
    /\ tasks' = [tasks EXCEPT ![i].status = IF outcome = "ok" THEN "done" ELSE "failed"]
    /\ UNCHANGED <<permitted_users, awaiting, grant_expiry, output, duration_str,
                   duration_seconds, members>>

(***************************************************************************)
(* remove_role_after_timeout: remove_roles returns ("done") or raises and  *)
(* an except clause logs it ("failed"); the finally clause unregisters the *)
(* handle                                                                  *)
(***************************************************************************)
remove_role_resume(i, outcome) ==
    /\ tasks[i].kind = "role"
    /\ tasks[i].status = "removing"
    /\ roles' = IF outcome = "ok" THEN roles \ {<<tasks[i].user, tasks[i].role>>} ELSE roles
    /\ user_timeouts' = DictDel(user_timeouts, tasks[i].user)
    /\ tasks' = [tasks EXCEPT ![i].status = IF outcome = "ok" THEN "done" ELSE "failed"]
    /\ UNCHANGED <<permitted_users, awaiting, grant_expiry, output, duration_str,
                   duration_seconds, members>>

(***************************************************************************)
(* remove_role_after_timeout cancelled while suspended in remove_roles:    *)
(* the request may or may not have reached the backend; the finally clause *)
(* runs                                                                    *)
(***************************************************************************)
remove_role_cancelled(i, removed) ==
    /\ tasks[i].kind = "role"
    /\ tasks[i].status = "cancelling"
    /\ roles' = IF removed THEN roles \ {<<tasks[i].user, tasks[i].role>>} ELSE roles
    /\ user_timeouts' = DictDel(user_timeouts, tasks[i].user)
    /\ tasks' = [tasks EXCEPT ![i].status = "cancelled"]
    /\ UNCHANGED <<permitted_users, awaiting, grant_expiry, output, duration_str,
                   duration_seconds, members>>

(***************************************************************************)
(* Time passes until the earliest sleeping task is due.  A due task wakes  *)
(* before more time passes.                                                *)
(***************************************************************************)
Sleeping == {i \in TaskIds : tasks[i].status = "sleeping"}

Min(S) == CHOOSE x \in S : \A y \in S : x <= y

Elapse ==
    /\ Sleeping # {}
    /\ \A i \in Sleeping : tasks[i].rem > 0
    /\ LET d == Min({tasks[i].rem : i \in Sleeping}) IN
       tasks' = [i \in TaskIds |->
                    IF i \in Sleeping THEN [tasks[i] EXCEPT !.rem = @ - d] ELSE tasks[i]]
    /\ UNCHANGED <<permitted_users, user_timeouts, roles, awaiting, grant_expiry,
                   output, duration_str, duration_seconds, members>>

Permit == \E c \in Callers, u \in members, d \in CmdTexts : permit(c, u, d)
Unpermit == \E c \in Callers, u \in members : unpermit(c, u)
Whitelist ==
    \E c \in Callers, u \in members, d \in CmdTexts, p \in PlanTexts : whitelist(c, u, d, p)
WhitelistResume == \E k \in 1..Len(awaiting), o \in AddOutcomes : whitelist_resume(k, o)
ExpirePermit == \E i \in TaskIds : remove_permit_after_timeout(i)
ExpireRoleCall == \E i \in TaskIds : remove_role_call(i)
ExpireRoleResume == \E i \in TaskIds, o \in RemoveOutcomes : remove_role_resume(i, o)
ExpireRoleCancelled == \E i \in TaskIds, b \in BOOLEAN : remove_role_cancelled(i, b)
TimerStep == ExpirePermit \/ ExpireRoleCall \/ ExpireRoleResume \/ ExpireRoleCancelled

Next ==
    \/ Permit
    \/ Unpermit
    \/ Whitelist
    \/ WhitelistResume
    \/ ExpirePermit
    \/ ExpireRoleCall
    \/ ExpireRoleResume
    \/ ExpireRoleCancelled
    \/ Elapse

\* Spec: a guild with the one member u1
Spec == Init /\ [][Next]_vars

\* FairSpec: the event loop runs every due timer task and every resumed
\* coroutine, and time does not stop
FairSpec == Spec /\ WF_vars(TimerStep) /\ WF_vars(Elapse)

(***************************************************************************)
(* PairSpec: a guild with the two members u1 and u2, the commands issued   *)
(* by the admin with a one-minute or an infinite duration and the          *)
(* Essential plan                                                          *)
(***************************************************************************)
PairTexts == { <<"1">>, <<"i", "n", "f">> }

PairInit ==
    /\ members = Users
    /\ permitted_users = {}
    /\ user_timeouts = [x \in {} |-> 0]
    /\ tasks = << >>
    /\ roles = {}
    /\ awaiting = << >>
    /\ grant_expiry = [u \in Users |-> [c \in Caps |-> "none"]]
    /\ output = "Ready"
    /\ duration_str = << >>
    /\ duration_seconds = NotCalled

PairPermit == \E u \in members, d \in PairTexts : permit("admin", u, d)
PairUnpermit == \E u \in members : unpermit("admin", u)
PairWhitelist == \E u \in members, d \in PairTexts : whitelist("admin", u, d, "Essential")

PairNext ==
    \/ PairPermit
    \/ PairUnpermit
    \/ PairWhitelist
    \/ WhitelistResume
    \/ ExpirePermit
    \/ ExpireRoleCall
    \/ ExpireRoleResume
    \/ ExpireRoleCancelled
    \/ Elapse

PairSpec == PairInit /\ [][PairNext]_vars

FairPairSpec == PairSpec /\ WF_vars(TimerStep) /\ WF_vars(Elapse)

(***************************************************************************)
(* ParseSpec: parse_duration called directly on each text of ParseInputs   *)
(***************************************************************************)
ParseAlphabet == {"0", "1", "5", "m", "h", "d", "-", "+", " ", "_", "a", "M"}

RECURSIVE Texts(_)
Texts(n) ==
    IF n = 0 THEN {<< >>}
    ELSE LET T == Texts(n - 1) IN
         T \cup {Append(t, c) : t \in {x \in T : Len(x) = n - 1}, c \in ParseAlphabet}

\* str(n) for n >= 0
RECURSIVE Decimal(_)
Decimal(n) == IF n < 10 THEN <<Digits[n + 1]>> ELSE Append(Decimal(n \div 10), Digits[(n % 10) + 1])

\* every upper/lower-case spelling of a word
Spellings(w) ==
    {[i \in 1..Len(w) |-> IF i \in S THEN Upper(w[i]) ELSE w[i]] : S \in SUBSET (1..Len(w))}

Units == {"m", "h", "d"}

ParseInputs ==
    Texts(MaxLen)
    \cup {Decimal(n) \o <<u>> : n \in 0..MaxN, u \in Units}
    \cup {Decimal(n) : n \in 0..MaxN}
    \cup Spellings(<<"i", "n", "f">>)
    \cup Spellings(<<"i", "n", "f", "i", "n", "i", "t", "e">>)
    \cup { <<"a", "b", "c">>, <<"-", "5", "m">>, <<"i", "n", "f", "m">>, <<"5", "M">> }

ParseInit ==
    /\ members = {"u1"}
    /\ permitted_users = {}
    /\ user_timeouts = [x \in {} |-> 0]
    /\ tasks = << >>
    /\ roles = {}
    /\ awaiting = << >>
    /\ grant_expiry = [u \in Users |-> [c \in Caps |-> "none"]]
    /\ output = "Ready"
    /\ duration_str \in ParseInputs
    /\ duration_seconds = NotCalled

ParseCall ==
    /\ duration_seconds = NotCalled
    /\ duration_seconds' = parse_duration(duration_str)
    /\ UNCHANGED <<members, permitted_users, user_timeouts, tasks, roles, awaiting,
                   grant_expiry, output, duration_str>>

ParseSpec == ParseInit /\ [][ParseCall]_vars

(***************************************************************************)
(* Vocabulary of the claims                                                *)
(***************************************************************************)
\* the timer tasks of kind k armed for u that are still in their sleep
SleepingTimers(u, k) ==
    {i \in TaskIds : tasks[i].user = u /\ tasks[i].kind = k /\ tasks[i].status = "sleeping"}

Holds(u, c) == IF c = "permit" THEN u \in permitted_users ELSE <<u, c>> \in roles

Finite(d) == parse_duration(d) # None /\ parse_duration(d) # Infinite

InfText == <<"i", "n", "f">>

\* no sleeping timer has reached its due time
NoneDue == \A i \in TaskIds : tasks[i].status = "sleeping" => tasks[i].rem > 0

\* the shapes of a valid duration: inf / infinite in any case, digits followed
\* by a unit, digits alone
AllDigits(s) == Len(s) > 0 /\ \A i \in 1..Len(s) : IsDigit(s[i])

ValidShape(s) ==
    \/ lower(s) = <<"i", "n", "f">>
    \/ lower(s) = <<"i", "n", "f", "i", "n", "i", "t", "e">>
    \/ (Len(s) > 0 /\ s[Len(s)] \in Units /\ AllDigits(DropLast(s)))
    \/ AllDigits(s)

\* the timer task i was armed for the grant key <<u, c>>
ArmedFor(i, u, c) ==
    /\ tasks[i].user = u
    /\ IF c = "permit" THEN tasks[i].kind = "permit"
       ELSE tasks[i].kind = "role" /\ tasks[i].role = c

\* a timer task that has neither finished nor been cancelled
Live(i) == tasks[i].status \in {"sleeping", "removing", "cancelling"}

LiveTimers(u, c) == {i \in TaskIds : ArmedFor(i, u, c) /\ Live(i)}

\* the command texts parse_duration rejects
InvalidTexts == {d \in CmdTexts : parse_duration(d) = None}

(***************************************************************************)
(* C1: regrant cancels the prior timer.  While the latest finite permit of *)
(* a regranted principal has neither elapsed nor been revoked, the         *)
(* principal holds the permission: the timer of the earlier grant does not *)
(* take it away.                                                           *)
(***************************************************************************)
C1_RegrantKeepsCapability ==
    \A u \in members :
        \A i, j \in TaskIds :
            ( /\ i < j
              /\ tasks[i].kind = "permit" /\ tasks[i].user = u
              /\ tasks[j].kind = "permit" /\ tasks[j].user = u
              /\ tasks[j].status = "sleeping" /\ tasks[j].rem > 0
              /\ grant_expiry[u]["permit"] = "finite" )
            => u \in permitted_users

(***************************************************************************)
(* C2: manual revoke prevents the expiry.  When unpermit(A) revokes, every *)
(* expiry task armed by a permit of A whose duration has not elapsed is    *)
(* cancelled, so that it never runs.                                       *)
(***************************************************************************)
C2_RevokeCancelsExpiry ==
    [][ \A u \in members :
          unpermit("admin", u) =>
              \A i \in TaskIds :
                  (tasks[i].kind = "permit" /\ tasks[i].user = u
                   /\ tasks[i].status = "sleeping" /\ tasks[i].rem > 0)
                  => tasks'[i].status = "cancelled" ]_vars

(***************************************************************************)
(* C3: every time-bounded grant is eventually revoked.  A capability held  *)
(* under a finite latest grant is eventually no longer held, unless an     *)
(* infinite grant follows or the backend refused the removal.              *)
(***************************************************************************)
C3_FiniteGrantEventuallyRevoked ==
    \A u \in Users : \A c \in Caps :
        (Holds(u, c) /\ grant_expiry[u][c] = "finite")
        ~> ( \/ ~Holds(u, c)
             \/ grant_expiry[u][c] = "inf"
             \/ \E i \in TaskIds : tasks[i].user = u /\ tasks[i].status = "failed" )

(***************************************************************************)
(* C4: an infinite grant ends only by manual revoke.  A principal whose    *)
(* latest permit is infinite and has not been revoked holds the            *)
(* permission.                                                             *)
(***************************************************************************)
C4_InfiniteGrantStays ==
    \A u \in members : grant_expiry[u]["permit"] = "inf" => u \in permitted_users

C6_StateOfLastOperation ==
    [][ \A u \in members :
          /\ (unpermit("admin", u) /\ u \in permitted_users /\ NoneDue') =>
                 (u \notin permitted_users /\ SleepingTimers(u, "permit") = {})'
          /\ \A d \in CmdTexts :
                 (permit("admin", u, d) /\ Finite(d) /\ NoneDue') =>
                     ( /\ u \in permitted_users
                       /\ u \in DOMAIN user_timeouts
                       /\ SleepingTimers(u, "permit") = {user_timeouts[u]} )'
          /\ (permit("admin", u, InfText) /\ NoneDue') =>
                 (u \in permitted_users /\ SleepingTimers(u, "permit") = {})'
      ]_vars

(***************************************************************************)
(* C7: an unauthorized caller causes no side effects.  whitelist, permit   *)
(* and unpermit called by a non-admin report Unauthorized, issue no        *)
(* backend call and leave permitted_users, user_timeouts and every task    *)
(* unchanged.                                                              *)
(***************************************************************************)
C7_UnauthorizedNoSideEffects ==
    [][ \A c \in Callers \ Admins : \A u \in members :
          /\ \A d \in CmdTexts :
                 (permit(c, u, d) \/ \E p \in PlanTexts : whitelist(c, u, d, p)) =>
                     /\ output' = "Unauthorized"
                     /\ UNCHANGED <<permitted_users, user_timeouts, tasks, roles, awaiting>>
          /\ unpermit(c, u) =>
                 /\ output' = "Unauthorized"
                 /\ UNCHANGED <<permitted_users, user_timeouts, tasks, roles, awaiting>>
      ]_vars

C7_Witness ==
    /\ output = "Unauthorized"
    /\ "u1" \in permitted_users
    /\ "u1" \in DOMAIN user_timeouts
    /\ <<"u1", "essential">> \in roles
    /\ \E i \in TaskIds : tasks[i].status = "sleeping"

(***************************************************************************)
(* C8: texts that are not a valid duration are rejected.  parse_duration   *)
(* returns None for every text that is not inf/infinite, not digits        *)
(* followed by m, h or d and not digits alone.                             *)
(***************************************************************************)
C8_InvalidShapesRejected ==
    (duration_seconds # NotCalled /\ ~ValidShape(duration_str)) => duration_seconds = None

(***************************************************************************)
(* C9: valid durations parse to the right number of seconds.  For n in     *)
(* 0..MaxN, str(n) followed by m, h, d gives n*60, n*3600, n*86400         *)
(* seconds, str(n) alone gives n*60, and every upper/lower-case spelling   *)
(* of inf and infinite gives Infinite.                                     *)
(***************************************************************************)
C9_ValidDurationsParse ==
    duration_seconds # NotCalled =>
        /\ \A n \in 0..MaxN :
              /\ duration_str = Decimal(n) \o <<"m">> => duration_seconds = Seconds(n * 60)
              /\ duration_str = Decimal(n) \o <<"h">> => duration_seconds = Seconds(n * 3600)
              /\ duration_str = Decimal(n) \o <<"d">> => duration_seconds = Seconds(n * 86400)
              /\ duration_str = Decimal(n) => duration_seconds = Seconds(n * 60)
        /\ duration_str \in Spellings(<<"i", "n", "f">>)
                            \cup Spellings(<<"i", "n", "f", "i", "n", "i", "t", "e">>)
              => duration_seconds = Infinite

C9_Witness ==
    /\ duration_str = <<"2", "5", "h">>
    /\ duration_seconds = Seconds(90000)

(***************************************************************************)
(* C10: an invalid duration rejects the whole grant request.  When the     *)
(* parse_duration call of permit or whitelist (admin caller) returns None, *)
(* the command reports InvalidDuration, issues no backend call, arms no    *)
(* timer and leaves permitted_users and user_timeouts unchanged.           *)
(***************************************************************************)
C10_InvalidDurationNoSideEffects ==
    [][ \A u \in members : \A d \in InvalidTexts :
              /\ permit("admin", u, d) =>
                     /\ output' = "InvalidDuration"
                     /\ UNCHANGED <<permitted_users, user_timeouts, tasks, roles, awaiting>>
              /\ \A p \in PlanTexts :
                     (PlanLower(p) \in Roles /\ whitelist("admin", u, d, p)) =>
                         /\ output' = "InvalidDuration"
                         /\ UNCHANGED <<permitted_users, user_timeouts, tasks, roles, awaiting>>
      ]_vars

C10_Witness ==
    /\ output = "InvalidDuration"
    /\ "u1" \in permitted_users
    /\ \E i \in TaskIds : tasks[i].status = "sleeping"

(***************************************************************************)
(* C11: revoke of an absent grant is idempotent and inert.  unpermit by    *)
(* the admin of a principal that is not in permitted_users reports         *)
(* NotPermitted and changes neither permitted_users nor user_timeouts, nor *)
(* any task, role or suspended handler; the principal is still absent      *)
(* afterwards, so a second unpermit in a row does the same.                *)
(***************************************************************************)
C11_AbsentRevokeInert ==
    [][ \A u \in members :
          (unpermit("admin", u) /\ u \notin permitted_users) =>
              /\ output' = "NotPermitted"
              /\ u \notin permitted_users'
              /\ UNCHANGED <<permitted_users, user_timeouts, tasks, roles, awaiting>>
      ]_vars

\* not-granted was reported for a principal whose role timer is registered
C11_Witness ==
    /\ output = "NotPermitted"
    /\ "u1" \notin permitted_users
    /\ "u1" \in DOMAIN user_timeouts
    /\ tasks[user_timeouts["u1"]].status = "sleeping"

(***************************************************************************)
(* C12: a forbidden backend call records no grant.  When add_roles raises  *)
(* Forbidden, whitelist reports PermissionError, creates no task, assigns  *)
(* no role and leaves user_timeouts and permitted_users as they were.      *)
(***************************************************************************)
C12_ForbiddenRecordsNoGrant ==
    [][ \A k \in 1..Len(awaiting) :
          whitelist_resume(k, "Forbidden") =>
              /\ output' = "PermissionError"
              /\ UNCHANGED <<permitted_users, user_timeouts, tasks, roles, grant_expiry>>
      ]_vars

\* the permission error was reported for a finite whitelist while an earlier
\* timer of the principal stays registered
C12_Witness ==
    /\ output = "PermissionError"
    /\ awaiting = << >>
    /\ "u1" \in DOMAIN user_timeouts
    /\ Len(tasks) = 1

(***************************************************************************)
(* C13: grants of different capability kinds to one principal are          *)
(* independent.  A permit, unpermit or permit expiry of a principal leaves *)
(* every sleeping role timer of that principal sleeping and, when it was   *)
(* the registered handle, registered; a whitelist grant or role expiry of  *)
(* a principal does the same for the principal's sleeping permit timers.   *)
(***************************************************************************)
C13_CapabilityKindsIndependent ==
    [][ \A u \in members :
          LET PermitStep ==
                  \/ \E d \in CmdTexts : permit("admin", u, d)
                  \/ unpermit("admin", u)
                  \/ \E j \in TaskIds : tasks[j].user = u /\ remove_permit_after_timeout(j)
              RoleStep ==
                  \/ \E k \in 1..Len(awaiting), o \in AddOutcomes :
                         awaiting[k].user = u /\ whitelist_resume(k, o)
                  \/ \E j \in TaskIds, o \in RemoveOutcomes :
                         tasks[j].user = u /\ remove_role_resume(j, o)
                  \/ \E j \in TaskIds, b \in BOOLEAN :
                         tasks[j].user = u /\ remove_role_cancelled(j, b)
              Kept(i) ==
                  /\ tasks'[i].status = "sleeping"
                  /\ (u \in DOMAIN user_timeouts /\ user_timeouts[u] = i)
                     => (u \in DOMAIN user_timeouts' /\ user_timeouts'[u] = i)
          IN  /\ PermitStep => \A i \in SleepingTimers(u, "role") : Kept(i)
              /\ RoleStep => \A i \in SleepingTimers(u, "permit") : Kept(i)
      ]_vars

(***************************************************************************)
(* C14: the timer count matches the grant state.  A grant key <<u, c>>     *)
(* whose capability is held under a finite latest grant has exactly one    *)
(* live timer (unless the backend refused the removal when its timer       *)
(* fired), and a key whose capability is not held has none.                *)
(***************************************************************************)
C14_TimerCountMatchesGrant ==
    \A u \in members : \A c \in Caps :
        /\ ( /\ Holds(u, c)
             /\ grant_expiry[u][c] = "finite"
             /\ ~\E i \in TaskIds : ArmedFor(i, u, c) /\ tasks[i].status = "failed" )
           => Cardinality(LiveTimers(u, c)) = 1
        /\ ~Holds(u, c) => LiveTimers(u, c) = {}

(***************************************************************************)
(* C15: a principal whose current grant is infinite has no scheduler       *)
(* handle.  Whenever a capability is held and its latest successful grant  *)
(* was infinite and has not been revoked, user_timeouts has no entry for   *)
(* the principal and no timer armed for that capability is sleeping.       *)
(***************************************************************************)
C15_InfiniteGrantHasNoHandle ==
    \A u \in members : \A c \in Caps :
        (Holds(u, c) /\ grant_expiry[u][c] = "inf") =>
            /\ u \notin DOMAIN user_timeouts
            /\ \A i \in TaskIds : ArmedFor(i, u, c) => tasks[i].status # "sleeping"

C17_FailingExpiryAbsorbed ==
    /\ [][
        \A i \in TaskIds : \A o \in RemoveOutcomes \ {"ok"} :
            remove_role_resume(i, o) =>
                /\ tasks'[i].status = "failed"
                /\ \A u \in DOMAIN user_timeouts' : user_timeouts'[u] # i
                /\ \A j \in TaskIds \ {i} : tasks'[j] = tasks[j]
                /\ \A u \in DOMAIN user_timeouts \ {tasks[i].user} :
                       u \in DOMAIN user_timeouts' /\ user_timeouts'[u] = user_timeouts[u]
                /\ UNCHANGED <<permitted_users, roles, awaiting, output>>
       ]_vars
    /\ \A j \in 1..MaxTasks :
          (IF j \in TaskIds
           THEN /\ tasks[j].status = "sleeping"
                /\ \E i \in TaskIds :
                       tasks[i].status = "failed" /\ tasks[i].user # tasks[j].user
           ELSE FALSE)
          ~> (IF j \in TaskIds THEN tasks[j].status # "sleeping" ELSE FALSE)

\* the removal failed for u1, who keeps the role and has no handle left, and
\* a timer of u2 is still sleeping
C17_Witness ==
    /\ \E i \in TaskIds :
          tasks[i].user = "u1" /\ tasks[i].kind = "role" /\ tasks[i].status = "failed"
    /\ "u1" \notin DOMAIN user_timeouts
    /\ \E j \in TaskIds : tasks[j].user = "u2" /\ tasks[j].status = "sleeping"
    /\ <<"u1", "essential">> \in roles

(***************************************************************************)
(* C18: grant validation follows the order authorize, parse duration,      *)
(* resolve capability.  whitelist by a non-admin reports Unauthorized      *)
(* whatever the other arguments; by the admin with a duration that does    *)
(* not parse it reports InvalidDuration whatever the plan; it reports      *)
(* InvalidPlan or RoleNotFound only for the admin with a duration that     *)
(* parses.                                                                 *)
(***************************************************************************)
C18_AuthorizeParseResolve ==
    [][ \A u \in members :
          /\ \A c \in Callers \ Admins : \A d \in CmdTexts : \A p \in PlanTexts :
                 whitelist(c, u, d, p) => output' = "Unauthorized"
          /\ \A d \in InvalidTexts : \A p \in PlanTexts :
                 whitelist("admin", u, d, p) => output' = "InvalidDuration"
          /\ output' \in {"InvalidPlan", "RoleNotFound"} =>
                 \A c \in Callers : \A d \in CmdTexts : \A p \in PlanTexts :
                     whitelist(c, u, d, p) => (is_admin(c) /\ d \notin InvalidTexts)
      ]_vars

(***************************************************************************)
(* C18 as amended: grant validation follows the order authorize, check the *)
(* plan name, parse duration, resolve the role.  whitelist by a non-admin  *)
(* reports Unauthorized whatever the other arguments; by the admin with a  *)
(* plan that is neither essential nor prime it reports InvalidPlan         *)
(* whatever the duration; by the admin with a known plan and a duration    *)
(* that does not parse it reports InvalidDuration whether or not the role  *)
(* resolves; it reports RoleNotFound only for the admin with a known plan  *)
(* and a duration that parses.                                             *)
(***************************************************************************)
C18_AuthorizePlanParseResolve ==
    [][ \A u \in members :
          /\ \A c \in Callers \ Admins : \A d \in CmdTexts : \A p \in PlanTexts :
                 whitelist(c, u, d, p) => output' = "Unauthorized"
          /\ \A d \in CmdTexts : \A p \in {q \in PlanTexts : PlanLower(q) \notin Roles} :
                 whitelist("admin", u, d, p) => output' = "InvalidPlan"
          /\ \A d \in InvalidTexts : \A p \in {q \in PlanTexts : PlanLower(q) \in Roles} :
                 whitelist("admin", u, d, p) => output' = "InvalidDuration"
          /\ output' = "RoleNotFound" =>
                 \A c \in Callers : \A d \in CmdTexts : \A p \in PlanTexts :
                     whitelist(c, u, d, p)
                     => (is_admin(c) /\ PlanLower(p) \in Roles /\ d \notin InvalidTexts)
      ]_vars

\* an unknown plan was reported while a grant of the principal is active
C18_Witness ==
    /\ output = "InvalidPlan"
    /\ "u1" \in permitted_users
    /\ awaiting = << >>

(***************************************************************************)
(* C19: every handle registered in user_timeouts is live.  Between handler *)
(* steps each entry of user_timeouts refers to a task that exists, was     *)
(* armed for that principal and has neither finished nor been cancelled:   *)
(* it is in its sleep or suspended in remove_roles.                        *)
(***************************************************************************)
C19_RegisteredHandleLive ==
    \A u \in DOMAIN user_timeouts :
        /\ user_timeouts[u] \in TaskIds
        /\ tasks[user_timeouts[u]].user = u
        /\ tasks[user_timeouts[u]].status \in {"sleeping", "removing"}

\* a handle is registered after an earlier timer of the principal has been
\* cancelled or has finished
C19_Witness ==
    /\ "u1" \in DOMAIN user_timeouts
    /\ \E i \in TaskIds :
          /\ tasks[i].user = "u1"
          /\ tasks[i].status \in {"done", "failed", "cancelled"}
          /\ i < user_timeouts["u1"]

(***************************************************************************)
(* C20: operations on one principal leave every other principal untouched. *)
(* For principals a # b, a permit, whitelist or unpermit targeting a and a *)
(* step of a timer armed for a change neither b's membership in            *)
(* permitted_users, nor b's entry in user_timeouts, nor b's roles, nor any *)
(* task armed for b.                                                       *)
(***************************************************************************)
C20_OtherPrincipalUntouched ==
    [][ \A a \in members : \A b \in members \ {a} :
          LET StepOn ==
                  \/ \E d \in PairTexts : permit("admin", a, d)
                  \/ unpermit("admin", a)
                  \/ \E d \in PairTexts : whitelist("admin", a, d, "Essential")
                  \/ \E k \in 1..Len(awaiting), o \in AddOutcomes :
                         awaiting[k].user = a /\ whitelist_resume(k, o)
                  \/ \E j \in TaskIds :
                         /\ tasks[j].user = a
                         /\ \/ remove_permit_after_timeout(j)
                            \/ remove_role_call(j)
                            \/ \E o \in RemoveOutcomes : remove_role_resume(j, o)
                            \/ \E r \in BOOLEAN : remove_role_cancelled(j, r)
              Untouched ==
                  /\ (b \in permitted_users') = (b \in permitted_users)
                  /\ (b \in DOMAIN user_timeouts') = (b \in DOMAIN user_timeouts)
                  /\ b \in DOMAIN user_timeouts => user_timeouts'[b] = user_timeouts[b]
                  /\ \A c \in Roles : (<<b, c>> \in roles') = (<<b, c>> \in roles)
                  /\ \A i \in TaskIds : tasks[i].user = b => tasks'[i] = tasks[i]
          IN  \* StepOn => Untouched, the frame compared first
              Untouched \/ ~StepOn
      ]_vars

\* u1 has been revoked and its timer cancelled while u2 holds the permission
\* with its timer asleep and registered
C20_Witness ==
    /\ output = "Revoked"
    /\ "u1" \notin permitted_users
    /\ \E i \in TaskIds : tasks[i].user = "u1" /\ tasks[i].status = "cancelled"
    /\ "u2" \in permitted_users
    /\ "u2" \in DOMAIN user_timeouts
    /\ tasks[user_timeouts["u2"]].status = "sleeping"

====
